---- MODULE Spec2Model ----
(***************************************************************************)
(* Model of the benchmarking build script                                  *)
(* Laboratory/Rust/benchmarking/build.rs: main sets bebop::COMPILER_PATH,  *)
(* calls bebop::build_schema_dir("schemas", "src/bebops") and then runs    *)
(* the protobuf generator on schemas/jazz.proto into src/protos.           *)
(*                                                                         *)
(* bebop_tools::build_schema_dir is not part of the sources at hand; its   *)
(* behaviour is modelled from sections 4.2, 6 and 7 of the specification.  *)
(***************************************************************************)
EXTENDS Naturals, Sequences, FiniteSets

VARIABLES
    platform,       \* cfg(windows) / cfg(unix): the variant compiled in
    installed,      \* paths at which a runnable schema compiler exists
    schemas,        \* the "schemas" directory: schema file -> "valid" | "malformed"
    bebopsWritable, \* whether "src/bebops" can be created and written
    protoValid,     \* whether the generator accepts schemas/jazz.proto
    hangs,          \* the external tools that never exit once started
    pc,             \* the orchestrator's state
    COMPILER_PATH,  \* bebop::COMPILER_PATH: <<>> is None, <<p>> is Some(p)
    batch,          \* build_schema_dir: "pending" | "open" | "closed"
    todo,           \* schema files the batch still has to compile
    running,        \* the external process main is blocked on, or "none"
    req,            \* the proto::Codegen builder (the CodegenRequest)
    bebops,         \* artifacts in "src/bebops"
    protos,         \* artifacts in "src/protos"
    err,            \* the error a failing step raised, or NoError
    report,         \* the panic message the build ends with, <<>> if none
    log             \* history: the steps taken so far, in order

env == <<platform, installed, schemas, bebopsWritable, protoValid, hangs>>
vars == <<platform, installed, schemas, bebopsWritable, protoValid, hangs,
          pc, COMPILER_PATH, batch, todo, running, req, bebops, protos,
          err, report, log>>

----------------------------------------------------------------------------
(* Bounds of the model. *)

MaxSchemas == 2
MaxDiagLen == 2
MaxInputs == 2
MaxRuns == 2

----------------------------------------------------------------------------
(* Values. *)

Platforms == {"windows", "unix"}

WindowsBin == "../../../bin/compiler/Windows-Debug/bebopc.exe"
LinuxBin == "../../../bin/compiler/Linux-Debug/bebopc"

(* Names the files of the "schemas" directory may bear, in the order a     *)
(* directory listing yields them.                                          *)
SchemaFiles == <<"a.bop", "b.bop", "c.bop", "d.bop">>
SchemaNames == {SchemaFiles[i] : i \in 1..MaxSchemas}

Tools == {"bebopc", "protoc"}

InProgress == {"Resolving", "GeneratingBatch", "GeneratingSingle"}
Terminal == {"Done", "Failed"}

(* Characters of an external process's diagnostic text: plain ones ("x",    *)
(* the apostrophe), white space and line ends (TAB, CR, LF), quoting        *)
(* characters (QUOTE, BSLASH), control characters (NUL, ESC, DEL) and a     *)
(* combining mark (U+0301).                                                 *)
DiagChars == {"x", "APOS", "TAB", "CR", "LF", "NUL", "QUOTE", "BSLASH", "ESC", "DEL", "U301"}

RECURSIVE SeqsUpTo(_, _)
SeqsUpTo(S, n) ==
    IF n = 0 THEN {<<>>}
    ELSE LET shorter == SeqsUpTo(S, n - 1)
         IN shorter \cup {Append(s, c) : s \in {t \in shorter : Len(t) = n - 1}, c \in S}

Diags == SeqsUpTo(DiagChars, MaxDiagLen) \ {<<>>}

NoError == [kind |-> "none", subject |-> "", diag |-> <<>>]

----------------------------------------------------------------------------
(* build.rs lines 6-9: the compiled-in table from platform to executable.  *)

BEBOP_BIN_Swapped(p) ==
    CASE p = "windows" -> LinuxBin
      [] p = "unix" -> WindowsBin

BEBOP_BIN(p) ==
    CASE p = "windows" -> WindowsBin
      [] p = "unix" -> LinuxBin

(* main, lines 11-23: the state the orchestrator is in once a statement    *)
(* has completed. The statements run in textual order.                     *)
MainAfter_CodegenFirst(stmt) ==
    CASE stmt = "set_path" -> "GeneratingSingle"
      [] stmt = "codegen" -> "GeneratingBatch"
      [] stmt = "batch" -> "Done"

MainAfter_NoCodegen(stmt) ==
    CASE stmt = "set_path" -> "GeneratingBatch"
      [] stmt = "batch" -> "Done"
      [] stmt = "codegen" -> "Done"

MainAfter(stmt) ==
    CASE stmt = "set_path" -> "GeneratingBatch"
      [] stmt = "batch" -> "GeneratingSingle"
      [] stmt = "codegen" -> "Done"

(* Line 15 is a plain call: a panic raised inside build_schema_dir unwinds *)
(* through main, nothing catches it.                                       *)
MainOnBatchPanic_Caught == MainAfter("batch")

MainOnBatchPanic == "Failed"

(* The CodegenRequest main builds, lines 17-20. *)
EmptyRequest == [out_dir |-> "", inputs |-> <<>>, includes |-> <<>>, set |-> FALSE]

MainRequest_NoInputs ==
    [out_dir |-> "src/protos", inputs |-> <<>>, includes |-> <<"schemas">>, set |-> TRUE]

MainRequest_WrongOutDir ==
    [out_dir |-> "src/bebops", inputs |-> <<"schemas/jazz.proto">>,
     includes |-> <<"schemas">>, set |-> TRUE]

MainRequest ==
    [out_dir |-> "src/protos", inputs |-> <<"schemas/jazz.proto">>,
     includes |-> <<"schemas">>, set |-> TRUE]

----------------------------------------------------------------------------
(* Result::expect, line 22. On Err(e) it panics with the message followed  *)
(* by ": " and the Debug rendering of e; on Ok it yields the value.        *)

(* The Debug rendering of an error. Its text is written by the Debug       *)
(* implementation of the error type that run() returns, which main does    *)
(* not choose: the rendering is kept as one uninterpreted item, the        *)
(* rendering of e.                                                         *)
DebugFmt(e) == <<[fmt |-> "{:?}", arg |-> e]>>

(* The error's own text, as its source wrote it. *)
DisplayFmt(e) == <<e.kind, ": ", e.subject, ": ">> \o e.diag

Ok == [ok |-> TRUE, error |-> NoError]
Err(e) == [ok |-> FALSE, error |-> e]

Expect_Ignored(result, msg) == [panics |-> FALSE, message |-> <<>>]

Expect(result, msg) ==
    IF result.ok THEN [panics |-> FALSE, message |-> <<>>]
    ELSE [panics |-> TRUE, message |-> <<msg, ": ">> \o DebugFmt(result.error)]

----------------------------------------------------------------------------
(* Helpers. *)

(* The files of a directory in listing order. *)
RECURSIVE Listing(_, _)
Listing(files, i) ==
    IF i > Len(SchemaFiles) THEN <<>>
    ELSE (IF SchemaFiles[i] \in files THEN <<SchemaFiles[i]>> ELSE <<>>)
         \o Listing(files, i + 1)

(* The artifact generated for a schema file: named after the file. Its     *)
(* bytes are those a deterministic generator derives from that file, so    *)
(* the pair stands for the artifact's name and content.                    *)
Artifact_SameName(dir, file) == <<dir, "out">>

Artifact_PerRun(dir, file) ==
    <<dir, file, Cardinality({i \in 1..Len(log) : log[i] = "rerun"})>>

Artifact(dir, file) == <<dir, file>>

RECURSIVE ArtifactsOf(_, _)
ArtifactsOf(dir, files) ==
    IF files = <<>> THEN {}
    ELSE {Artifact(dir, Head(files))} \cup ArtifactsOf(dir, Tail(files))

----------------------------------------------------------------------------
(* Initial states: main has not been entered. The environment (platform,   *)
(* file system, behaviour of the external tools) is arbitrary.             *)

Init ==
    /\ platform \in Platforms
    /\ installed \in SUBSET {WindowsBin, LinuxBin}
    /\ \E present \in SUBSET SchemaNames :
           schemas \in [present -> {"valid", "malformed"}]
    /\ bebopsWritable \in BOOLEAN
    /\ protoValid \in BOOLEAN
    /\ hangs \in SUBSET Tools
    /\ pc = "NotStarted"
    /\ COMPILER_PATH = <<>>
    /\ batch = "pending"
    /\ todo = <<>>
    /\ running = "none"
    /\ req = EmptyRequest
    /\ bebops = {}
    /\ protos = {}
    /\ err = NoError
    /\ report = <<>>
    /\ log = <<>>

----------------------------------------------------------------------------
(* main *)

(* The build system invokes the build script: main is entered (line 11). *)
Start ==
    /\ pc = "NotStarted"
    /\ pc' = "Resolving"
    /\ log' = Append(log, "start")
    /\ UNCHANGED <<env, COMPILER_PATH, batch, todo, running, req, bebops, protos,
                   err, report>>

(* Lines 12-14: bebop::COMPILER_PATH = Some(PathBuf::from(BEBOP_BIN)). *)
SetCompilerPath_Forgotten ==
    /\ pc = "Resolving"
    /\ pc' = MainAfter("set_path")
    /\ log' = Append(log, "set_path")
    /\ UNCHANGED <<env, COMPILER_PATH, batch, todo, running, req, bebops, protos,
                   err, report>>

SetCompilerPath_Checked ==
    /\ pc = "Resolving"
    /\ COMPILER_PATH' = <<BEBOP_BIN(platform)>>
    /\ log' = Append(log, "set_path")
    /\ IF BEBOP_BIN(platform) \in installed
       THEN /\ pc' = MainAfter("set_path")
            /\ UNCHANGED <<err, report>>
       ELSE /\ pc' = "Failed"
            /\ err' = [kind |-> "ToolNotFound", subject |-> BEBOP_BIN(platform),
                       diag |-> <<>>]
            /\ report' = DisplayFmt(err')
    /\ UNCHANGED <<env, batch, todo, running, req, bebops, protos>>

SetCompilerPath ==
    /\ pc = "Resolving"
    /\ COMPILER_PATH' = <<BEBOP_BIN(platform)>>
    /\ pc' = MainAfter("set_path")
    /\ log' = Append(log, "set_path")
    /\ UNCHANGED <<env, batch, todo, running, req, bebops, protos, err, report>>

(* A panic inside build_schema_dir: the error e, with its own message. *)
BatchPanics(e) ==
    /\ err' = e
    /\ report' = IF MainOnBatchPanic = "Failed" THEN DisplayFmt(e) ELSE report
    /\ pc' = MainOnBatchPanic
    /\ batch' = "closed"
    /\ running' = "none"
    /\ todo' = <<>>

(* Line 15, the call: build_schema_dir("schemas", "src/bebops") is entered. *)
(* It needs the compiler and the output directory, and lists the source     *)
(* directory once.                                                          *)
BuildSchemaDirEnter ==
    /\ pc = "GeneratingBatch"
    /\ batch = "pending"
    /\ running = "none"
    /\ log' = Append(log, "batch_begin")
    /\ IF COMPILER_PATH = <<>> \/ (COMPILER_PATH # <<>> /\ COMPILER_PATH[1] \notin installed)
       THEN /\ BatchPanics([kind |-> "ToolNotFound",
                            subject |-> IF COMPILER_PATH = <<>> THEN "" ELSE COMPILER_PATH[1],
                            diag |-> <<>>])
            /\ UNCHANGED <<env, COMPILER_PATH, req, bebops, protos>>
       ELSE IF ~bebopsWritable
       THEN /\ BatchPanics([kind |-> "IOError", subject |-> "src/bebops", diag |-> <<>>])
            /\ UNCHANGED <<env, COMPILER_PATH, req, bebops, protos>>
       ELSE /\ batch' = "open"
            /\ todo' = Listing(DOMAIN schemas, 1)
            /\ UNCHANGED <<env, pc, COMPILER_PATH, running, req, bebops, protos,
                           err, report>>

(* build_schema_dir starts the compiler on the next schema file and blocks. *)
SpawnCompiler ==
    /\ pc = "GeneratingBatch"
    /\ batch = "open"
    /\ running = "none"
    /\ todo # <<>>
    /\ running' = "bebopc"
    /\ log' = Append(log, "spawn_bebopc")
    /\ UNCHANGED <<env, pc, COMPILER_PATH, batch, todo, req, bebops, protos,
                   err, report>>

(* The compiler process exits: status 0 and an artifact for a valid schema, *)
(* a non-zero status and a diagnostic for a malformed one.                  *)
CompilerExit_KeepGoing ==
    /\ running = "bebopc"
    /\ "bebopc" \notin hangs
    /\ log' = Append(log, "exit_bebopc")
    /\ todo' = Tail(todo)
    /\ running' = "none"
    /\ IF schemas[Head(todo)] = "valid"
       THEN /\ bebops' = bebops \cup {Artifact("src/bebops", Head(todo))}
            /\ UNCHANGED <<err, report>>
       ELSE /\ bebops' = bebops
            /\ \E d \in Diags :
                  /\ err' = [kind |-> "CompilationFailed", subject |-> Head(todo),
                             diag |-> d]
                  /\ report' = DisplayFmt(err')
    /\ UNCHANGED <<env, pc, COMPILER_PATH, batch, req, protos>>

CompilerExit ==
    /\ running = "bebopc"
    /\ "bebopc" \notin hangs
    /\ log' = Append(log, "exit_bebopc")
    /\ LET file == Head(todo)
       IN IF schemas[file] = "valid"
          THEN /\ bebops' = bebops \cup {Artifact("src/bebops", file)}
               /\ todo' = Tail(todo)
               /\ running' = "none"
               /\ UNCHANGED <<env, pc, COMPILER_PATH, batch, req, protos, err, report>>
          ELSE /\ \E d \in Diags :
                      BatchPanics([kind |-> "CompilationFailed", subject |-> file,
                                   diag |-> d])
               /\ UNCHANGED <<env, COMPILER_PATH, req, bebops, protos>>

(* Every schema file is compiled: build_schema_dir returns to main. *)
BuildSchemaDirReturn ==
    /\ pc = "GeneratingBatch"
    /\ batch = "open"
    /\ running = "none"
    /\ todo = <<>>
    /\ batch' = "closed"
    /\ pc' = MainAfter("batch")
    /\ log' = Append(log, "batch_end")
    /\ UNCHANGED <<env, COMPILER_PATH, todo, running, req, bebops, protos, err, report>>

(* Lines 17-20: Codegen::new().out_dir(..).inputs(..).include(..). *)
CodegenConfigure ==
    /\ pc = "GeneratingSingle"
    /\ ~req.set
    /\ req' = MainRequest
    /\ log' = Append(log, "configure")
    /\ UNCHANGED <<env, pc, COMPILER_PATH, batch, todo, running, bebops, protos,
                   err, report>>

(* What main does with the Result of run(): .expect("Codegen failed"). *)
MainOnCodegenResult_Unchecked(result) ==
    /\ pc' = MainAfter("codegen")
    /\ report' = report

MainOnCodegenResult_Retry(result) ==
    LET x == Expect(result, "Codegen failed")
    IN IF x.panics
       THEN /\ pc' = "GeneratingSingle"
            /\ report' = x.message
       ELSE /\ pc' = MainAfter("codegen")
            /\ report' = report

MainOnCodegenResult(result) ==
    LET x == Expect(result, "Codegen failed")
    IN IF x.panics
       THEN /\ pc' = "Failed"
            /\ report' = x.message
       ELSE /\ pc' = MainAfter("codegen")
            /\ report' = report

(* The generator refuses a request that names no input file. *)
CodegenRefuses_Never(request) == FALSE

CodegenRefuses(request) == request.inputs = <<>>

(* Line 21: run(). An empty input list is refused before anything starts;  *)
(* otherwise the generator is started and main blocks on it.               *)
CodegenRun_NoWait ==
    /\ pc = "GeneratingSingle"
    /\ req.set
    /\ running = "none"
    /\ running' = "protoc"
    /\ pc' = MainAfter("codegen")
    /\ log' = Append(log, "spawn_protoc")
    /\ UNCHANGED <<env, COMPILER_PATH, batch, todo, req, bebops, protos, err, report>>

CodegenRun ==
    /\ pc = "GeneratingSingle"
    /\ req.set
    /\ running = "none"
    /\ IF CodegenRefuses(req)
       THEN LET e == [kind |-> "ConfigurationError", subject |-> req.out_dir,
                      diag |-> <<>>]
            IN /\ err' = e
               /\ MainOnCodegenResult(Err(e))
               /\ log' = Append(log, "refuse_protoc")
               /\ UNCHANGED <<env, COMPILER_PATH, batch, todo, running, req, bebops, protos>>
       ELSE /\ running' = "protoc"
            /\ log' = Append(log, "spawn_protoc")
            /\ UNCHANGED <<env, pc, COMPILER_PATH, batch, todo, req, bebops, protos,
                           err, report>>

(* The generator exits; run() returns its Result and line 22 unwraps it. *)
GeneratorExit_Timeout ==
    /\ running = "protoc"
    /\ running' = "none"
    /\ log' = Append(log, "exit_protoc")
    /\ IF protoValid /\ "protoc" \notin hangs
       THEN /\ protos' = protos \cup ArtifactsOf(req.out_dir, req.inputs)
            /\ err' = err
            /\ MainOnCodegenResult(Ok)
       ELSE LET e == [kind |-> "CodegenFailed", subject |-> Head(req.inputs),
                      diag |-> <<"x">>]
            IN /\ err' = e
               /\ protos' = protos
               /\ MainOnCodegenResult(Err(e))
    /\ UNCHANGED <<env, COMPILER_PATH, batch, todo, req, bebops>>

GeneratorExit ==
    /\ running = "protoc"
    /\ "protoc" \notin hangs
    /\ running' = "none"
    /\ log' = Append(log, "exit_protoc")
    /\ IF protoValid
       THEN /\ IF req.out_dir = "src/bebops"
               THEN /\ bebops' = bebops \cup ArtifactsOf(req.out_dir, req.inputs)
                    /\ protos' = protos
               ELSE /\ protos' = protos \cup ArtifactsOf(req.out_dir, req.inputs)
                    /\ bebops' = bebops
            /\ err' = err
            /\ MainOnCodegenResult(Ok)
       ELSE \E d \in Diags :
               LET e == [kind |-> "CodegenFailed",
                         subject |-> IF req.inputs = <<>> THEN "" ELSE Head(req.inputs),
                         diag |-> d]
               IN /\ err' = e
                  /\ UNCHANGED <<bebops, protos>>
                  /\ MainOnCodegenResult(Err(e))
    /\ UNCHANGED <<env, COMPILER_PATH, batch, todo, req>>

Next ==
    \/ Start
    \/ SetCompilerPath
    \/ BuildSchemaDirEnter
    \/ SpawnCompiler
    \/ CompilerExit
    \/ BuildSchemaDirReturn
    \/ CodegenConfigure
    \/ CodegenRun
    \/ GeneratorExit

Spec == Init /\ [][Next]_vars

(* main is one sequential thread: whenever it can take a step it does. An  *)
(* external process that exits does so eventually; one listed in hangs     *)
(* never enables its exit step.                                            *)
FairSpec == Spec /\ WF_vars(Next)

----------------------------------------------------------------------------
(* The generator on its own: the same build, with the request of lines     *)
(* 17-20 replaced by any request the builder can express.                  *)

ProtoFiles == {"schemas/jazz.proto", "schemas/common.proto"}

Requests ==
    {[out_dir |-> "src/protos", inputs |-> i, includes |-> inc, set |-> TRUE] :
        i \in SeqsUpTo(ProtoFiles, MaxInputs), inc \in {<<>>, <<"schemas">>}}

CodegenConfigureAny ==
    /\ pc = "GeneratingSingle"
    /\ ~req.set
    /\ \E r \in Requests : req' = r
    /\ log' = Append(log, "configure")
    /\ UNCHANGED <<env, pc, COMPILER_PATH, batch, todo, running, bebops, protos,
                   err, report>>

NextReq ==
    \/ Start
    \/ SetCompilerPath
    \/ BuildSchemaDirEnter
    \/ SpawnCompiler
    \/ CompilerExit
    \/ BuildSchemaDirReturn
    \/ CodegenConfigureAny
    \/ CodegenRun
    \/ GeneratorExit

SpecReq == Init /\ [][NextReq]_vars

----------------------------------------------------------------------------
(* Building again: the build system runs the script a further time on the  *)
(* file system the previous run left, with the inputs unchanged. The new   *)
(* process starts from fresh program state.                                *)

Rebuild ==
    /\ pc \in Terminal
    /\ Cardinality({i \in 1..Len(log) : log[i] = "rerun"}) < MaxRuns - 1
    /\ pc' = "NotStarted"
    /\ COMPILER_PATH' = <<>>
    /\ batch' = "pending"
    /\ todo' = <<>>
    /\ running' = "none"
    /\ req' = EmptyRequest
    /\ err' = NoError
    /\ report' = <<>>
    /\ log' = Append(log, "rerun")
    /\ UNCHANGED <<env, bebops, protos>>

NextRerun ==
    \/ Start
    \/ SetCompilerPath
    \/ BuildSchemaDirEnter
    \/ SpawnCompiler
    \/ CompilerExit
    \/ BuildSchemaDirReturn
    \/ CodegenConfigure
    \/ CodegenRun
    \/ GeneratorExit
    \/ Rebuild

SpecRerun == Init /\ [][NextRerun]_vars

----------------------------------------------------------------------------
(* Reading the history. *)

Positions(ev) == {i \in 1..Len(log) : log[i] = ev}
Count(ev) == Cardinality(Positions(ev))
Happened(ev) == Positions(ev) # {}
Before(a, b) == \A j \in Positions(b) : \E i \in Positions(a) : i < j
Last(s) == s[Len(s)]

AllBebops == {Artifact("src/bebops", f) : f \in DOMAIN schemas}
ToolPresent == BEBOP_BIN(platform) \in installed
BatchCanSucceed ==
    /\ ToolPresent
    /\ bebopsWritable
    /\ \A f \in DOMAIN schemas : schemas[f] = "valid"
EnvGood == BatchCanSucceed /\ protoValid
BatchErrorKinds == {"ToolNotFound", "IOError", "CompilationFailed"}
CodegenErrorKinds == {"CodegenFailed", "ConfigurationError"}

----------------------------------------------------------------------------
(* C1: in every build the steps happen in the order tool path set, batch    *)
(* schema compilation, protobuf generation: the batch is entered only once  *)
(* the path is set, every compiler process runs inside the batch, and the   *)
(* generator is configured and started only after the batch has returned,   *)
(* with every schema file of the directory compiled.                        *)
C1_StepOrder ==
    /\ Before("start", "set_path")
    /\ Before("set_path", "batch_begin")
    /\ Before("batch_begin", "spawn_bebopc")
    /\ Before("batch_begin", "batch_end")
    /\ Before("batch_end", "configure")
    /\ Before("batch_end", "spawn_protoc")
    /\ \A i \in Positions("spawn_bebopc") : \A j \in Positions("batch_end") : i < j
    /\ \A i \in Positions("exit_bebopc") : \A j \in Positions("spawn_protoc") : i < j
    /\ Happened("spawn_protoc") =>
          /\ batch = "closed"
          /\ todo = <<>>
          /\ bebops = AllBebops
          /\ COMPILER_PATH # <<>>
    /\ running = "protoc" => pc = "GeneratingSingle"
    /\ running = "bebopc" => pc = "GeneratingBatch" /\ ~Happened("spawn_protoc")

(* A build that compiled a schema and then started the generator. *)
C1_Witness ==
    /\ Happened("spawn_bebopc")
    /\ Happened("spawn_protoc")
    /\ Cardinality(bebops) = MaxSchemas

(* C2: fail-fast. A failing step ends the build at once in Failed, with a   *)
(* report; when the batch schema compilation fails the generator is neither *)
(* configured nor started in that build and the build does not reach Done.  *)
C2_FailFast ==
    /\ err # NoError =>
          /\ pc = "Failed"
          /\ running = "none"
          /\ report # <<>>
          /\ Last(log) \in {"batch_begin", "exit_bebopc", "refuse_protoc", "exit_protoc"}
    /\ err.kind \in BatchErrorKinds =>
          /\ pc # "Done"
          /\ ~Happened("spawn_protoc")
          /\ ~Happened("configure")
          /\ ~Happened("batch_end")
          /\ protos = {}
    /\ (pc \notin {"NotStarted", "Resolving"} /\ batch # "pending" /\ ~ToolPresent) =>
          err.kind = "ToolNotFound"
    /\ (batch = "closed" /\ ~BatchCanSucceed) => err.kind \in BatchErrorKinds

(* The batch failed on its second schema file, after compiling the first. *)
C2_Witness ==
    /\ err.kind = "CompilationFailed"
    /\ bebops # {}
    /\ pc = "Failed"

----------------------------------------------------------------------------
(* C4: the tool path is written once, in the Resolving step, before any     *)
(* generation step: from the moment the batch compiler or the generator     *)
(* may run it holds the value assigned for the platform, and once set it    *)
(* never changes.                                                           *)
C4_ToolPathSetOnce ==
    /\ [](pc \in {"GeneratingBatch", "GeneratingSingle", "Done"} \/ batch # "pending"
            \/ running # "none"
          => COMPILER_PATH = <<BEBOP_BIN(platform)>>)
    /\ [](pc \in {"NotStarted", "Resolving"} => COMPILER_PATH = <<>>)
    /\ [][COMPILER_PATH # <<>> => COMPILER_PATH' = COMPILER_PATH]_vars
    /\ [][COMPILER_PATH' # COMPILER_PATH => pc = "Resolving" /\ batch = "pending"]_vars

(* The generator is running and the path is the one set at the start. *)
C4_Witness ==
    /\ running = "protoc"
    /\ Happened("exit_bebopc")
    /\ COMPILER_PATH = <<BEBOP_BIN(platform)>>

(* C5: the build is Done only if the tool path was resolved, the batch      *)
(* compiled every schema file without error and the generator succeeded.    *)
C5_DoneOnlyIfAllSucceeded ==
    pc = "Done" =>
        /\ COMPILER_PATH = <<BEBOP_BIN(platform)>>
        /\ EnvGood
        /\ err = NoError
        /\ report = <<>>
        /\ Happened("set_path") /\ Happened("batch_end") /\ Happened("exit_protoc")
        /\ Count("exit_bebopc") = Cardinality(DOMAIN schemas)
        /\ bebops = AllBebops
        /\ protos = {Artifact("src/protos", "schemas/jazz.proto")}

(* A successful build over a non-empty schema directory. *)
C5_Witness ==
    /\ pc = "Done"
    /\ bebops # {}
    /\ protos # {}

(* C6: Failed and Done are final: no step leaves them or changes anything,  *)
(* no process is started once a step has failed (no retry), and no step     *)
(* removes output already written (no rollback).                            *)
C6_TerminalStatesAbsorb ==
    /\ [][(pc \in Terminal) => (vars' = vars)]_vars
    /\ [][err # NoError => running' = "none" /\ pc' = "Failed"]_vars
    /\ [][bebops \subseteq bebops' /\ protos \subseteq protos']_vars
    /\ [](pc \in Terminal => running = "none")

(* A build that failed in its last step, with output of the first on disk. *)
C6_Witness ==
    /\ pc = "Failed"
    /\ bebops # {}
    /\ Happened("exit_protoc")

----------------------------------------------------------------------------
(* C7: Failed is reachable from every in-progress state: for each of        *)
(* Resolving, GeneratingBatch and GeneratingSingle, a build that is in that *)
(* state with a failure still ahead of it (a missing compiler, an output    *)
(* directory that cannot be written, a malformed schema or a rejected       *)
(* .proto file) and whose processes exit moves on to Failed.                *)
C7_FailedReachable ==
    \A p \in InProgress :
        (pc = p /\ hangs = {} /\ ~EnvGood) ~> (pc = "Failed")

(* One build that went through Resolving, GeneratingBatch and               *)
(* GeneratingSingle and ended in Failed.                                    *)
C7_Witness ==
    /\ pc = "Failed"
    /\ Happened("set_path")
    /\ Happened("spawn_bebopc")
    /\ Happened("batch_end")
    /\ Happened("spawn_protoc")
    /\ err.kind = "CodegenFailed"

(* C8: the tool path resolver maps each supported platform to its one       *)
(* path: whenever the path is set it is the non-empty path of the platform  *)
(* the build was compiled for, whatever the rest of the environment is, and *)
(* the platform of a build never changes.                                   *)
C8_ToolPathResolver ==
    /\ [](platform \in {"windows", "unix"})
    /\ [](COMPILER_PATH # <<>> =>
            /\ Len(COMPILER_PATH) = 1
            /\ COMPILER_PATH[1] # ""
            /\ platform = "windows" =>
                  COMPILER_PATH[1] = "../../../bin/compiler/Windows-Debug/bebopc.exe"
            /\ platform = "unix" =>
                  COMPILER_PATH[1] = "../../../bin/compiler/Linux-Debug/bebopc")
    /\ [][platform' = platform]_vars

(* A Windows build with the path resolved, on a machine that has only the   *)
(* Linux compiler.                                                          *)
C8_Witness ==
    /\ platform = "windows"
    /\ COMPILER_PATH = <<"../../../bin/compiler/Windows-Debug/bebopc.exe">>
    /\ installed = {"../../../bin/compiler/Linux-Debug/bebopc"}

(* C9: tool path resolution never fails: the Resolving step always leads to *)
(* GeneratingBatch with no error, also when no compiler exists at the       *)
(* resolved path; the missing compiler is detected when the batch schema    *)
(* compiler is invoked, which fails with ToolNotFound naming the path.      *)
C9_ResolutionNeverFails ==
    /\ [][pc = "Resolving" => pc' = "GeneratingBatch" /\ err' = NoError /\ report' = <<>>]_vars
    /\ [](pc \in {"NotStarted", "Resolving"} \/ (pc = "GeneratingBatch" /\ batch = "pending")
            => err = NoError)
    /\ [][(pc = "GeneratingBatch" /\ batch = "pending" /\ ~ToolPresent) =>
            /\ pc' = "Failed"
            /\ err' = [kind |-> "ToolNotFound", subject |-> BEBOP_BIN(platform),
                       diag |-> <<>>]]_vars
    /\ [](err.kind = "ToolNotFound" => ~ToolPresent /\ Last(log) = "batch_begin")

(* The batch step failed with ToolNotFound after the path was resolved. *)
C9_Witness ==
    /\ pc = "Failed"
    /\ err.kind = "ToolNotFound"
    /\ Happened("set_path")
    /\ COMPILER_PATH # <<>>

(* C10: the protobuf generator is started at most once in a build, and      *)
(* exactly once in every build whose batch schema compilation succeeded:    *)
(* once the batch has returned the generator is started before the build    *)
(* ends.                                                                    *)
C10_GeneratorOnce ==
    /\ Count("spawn_protoc") <= 1
    /\ Count("configure") <= 1
    /\ (Happened("batch_end") /\ pc \in Terminal) => Count("spawn_protoc") = 1
    /\ Happened("spawn_protoc") => Happened("batch_end")

(* A build whose batch succeeded and which ended after one generator run. *)
C10_Witness ==
    /\ pc \in Terminal
    /\ Happened("batch_end")
    /\ Count("spawn_protoc") = 1
    /\ Count("spawn_bebopc") = MaxSchemas

----------------------------------------------------------------------------
(* C11: a request with zero input files makes the generator step fail with  *)
(* ConfigurationError before any external process is started: no generator *)
(* process runs or has run for it, nothing is written, and the build ends   *)
(* in Failed at the refusal; no other request is refused this way.          *)
C11_EmptyRequestRefused ==
    /\ (req.set /\ req.inputs = <<>>) =>
          /\ ~Happened("spawn_protoc")
          /\ running = "none"
          /\ protos = {}
          /\ pc \in {"GeneratingSingle", "Failed"}
          /\ pc = "Failed" =>
                /\ err.kind = "ConfigurationError"
                /\ Last(log) = "refuse_protoc"
                /\ report[1] = "Codegen failed"
    /\ err.kind = "ConfigurationError" => (req.set /\ req.inputs = <<>>)
    /\ Happened("refuse_protoc") => err.kind = "ConfigurationError"

(* A build whose generator was handed an empty request and refused it. *)
C11_Witness ==
    /\ req.set
    /\ req.inputs = <<>>
    /\ pc = "Failed"
    /\ err.kind = "ConfigurationError"
    /\ Happened("batch_end")

----------------------------------------------------------------------------
(* C12: a batch that returns successfully over a directory of N schema      *)
(* files, all valid, has run the compiler N times and left exactly N        *)
(* artifacts in src/bebops, one per schema file; over an empty directory    *)
(* (with the compiler present and the output directory writable) it returns *)
(* successfully, starts no compiler and writes nothing.                     *)
C12_OneArtifactPerSchema ==
    /\ Happened("batch_end") =>
          /\ \A f \in DOMAIN schemas : schemas[f] = "valid"
          /\ Count("spawn_bebopc") = Cardinality(DOMAIN schemas)
          /\ Count("exit_bebopc") = Cardinality(DOMAIN schemas)
          /\ Cardinality({a \in bebops : a[1] = "src/bebops"}) = Cardinality(DOMAIN schemas)
          /\ \A f \in DOMAIN schemas : Artifact("src/bebops", f) \in bebops
          /\ \A a \in bebops : \E f \in DOMAIN schemas : a = <<"src/bebops", f>>
    /\ (batch = "closed" /\ BatchCanSucceed) => Happened("batch_end")
    /\ (batch = "closed" /\ DOMAIN schemas = {} /\ ToolPresent /\ bebopsWritable) =>
          /\ Happened("batch_end")
          /\ bebops = {}
          /\ ~Happened("spawn_bebopc")
          /\ err.kind \notin BatchErrorKinds

(* The batch returned over a directory of MaxSchemas valid schema files. *)
C12_Witness ==
    /\ Happened("batch_end")
    /\ Cardinality(DOMAIN schemas) = MaxSchemas
    /\ Cardinality(bebops) = MaxSchemas

Reruns == Count("rerun")
(* The events of the current run: those after the last "rerun". *)
InThisRun(ev) ==
    \E i \in Positions(ev) : \A j \in Positions("rerun") : j < i

(* C13: re-running the batch with the schema set unchanged is idempotent:   *)
(* no step of a later run changes the contents of src/bebops, every         *)
(* artifact a later run writes replaces the one of the same name that the   *)
(* earlier run left, and when the later batch returns the directory holds   *)
(* exactly the artifacts of the schema files, as after the first run.       *)
C13_RerunIdempotent ==
    /\ [][Happened("rerun") => bebops' = bebops]_vars
    /\ [][(Happened("rerun") /\ running = "bebopc" /\ pc' # "Failed") =>
            Artifact("src/bebops", Head(todo)) \in bebops]_vars
    /\ [](InThisRun("batch_end") => bebops = AllBebops)
    /\ [][(pc \in Terminal /\ pc' = "NotStarted") => bebops' = bebops /\ schemas' = schemas]_vars

(* A second run that compiled every schema file again and ended Done. *)
C13_Witness ==
    /\ Reruns = 1
    /\ pc = "Done"
    /\ InThisRun("batch_end")
    /\ Count("exit_bebopc") = 2 * MaxSchemas
    /\ Cardinality(bebops) = MaxSchemas

----------------------------------------------------------------------------
(* The schema files in listing order, and the places of the malformed ones. *)
Listed == Listing(DOMAIN schemas, 1)
Malformed == {i \in 1..Len(Listed) : schemas[Listed[i]] = "malformed"}

(* C14: when the directory holds a malformed schema file the batch fails    *)
(* with CompilationFailed naming the first such file in listing order, at   *)
(* once: the compiler has run on the files up to it only, the files before  *)
(* it have their artifacts, and neither it nor any file after it is         *)
(* compiled or has an artifact.                                             *)
C14_BatchFailFast ==
    /\ err.kind = "CompilationFailed" =>
          /\ Malformed # {}
          /\ \E k \in Malformed :
                /\ \A j \in Malformed : k <= j
                /\ err.subject = Listed[k]
                /\ report[3] = Listed[k]
                /\ Count("spawn_bebopc") = k
                /\ Count("exit_bebopc") = k
                /\ bebops = {Artifact("src/bebops", Listed[i]) : i \in 1..(k - 1)}
                /\ \A i \in k..Len(Listed) : Artifact("src/bebops", Listed[i]) \notin bebops
          /\ pc = "Failed"
          /\ batch = "closed"
          /\ running = "none"
          /\ Last(log) = "exit_bebopc"
    /\ (batch = "closed" /\ ToolPresent /\ bebopsWritable /\ Malformed # {}) =>
          err.kind = "CompilationFailed"
    /\ running = "bebopc" => \A i \in Malformed : Listed[i] \in {todo[j] : j \in 1..Len(todo)}

(* The batch failed on its first file; the valid file after it was left. *)
C14_Witness ==
    /\ err.kind = "CompilationFailed"
    /\ Len(Listed) = MaxSchemas
    /\ err.subject = Listed[1]
    /\ schemas[Listed[MaxSchemas]] = "valid"
    /\ bebops = {}

(* C15: the two generation steps write to different directories and share   *)
(* no state: the batch step changes neither src/protos nor the request, the *)
(* generation step changes neither src/bebops nor the batch's state nor the *)
(* tool path, no step changes the schemas directory, every artifact of      *)
(* src/bebops stems from a schema file and every artifact of src/protos     *)
(* from the request's input.                                                *)
C15_DisjointOutputs ==
    /\ [][pc = "GeneratingBatch" => protos' = protos /\ req' = req]_vars
    /\ [][pc = "GeneratingSingle" =>
            /\ bebops' = bebops
            /\ batch' = batch
            /\ todo' = todo
            /\ COMPILER_PATH' = COMPILER_PATH]_vars
    /\ [][schemas' = schemas]_vars
    /\ [](\A a \in bebops : a[1] = "src/bebops" /\ a[2] \in DOMAIN schemas)
    /\ [](\A a \in protos : a = <<"src/protos", "schemas/jazz.proto">>)
    /\ [](bebops \cap protos = {})
    /\ [](protos # {} => Happened("exit_protoc"))

(* Both steps have written: every schema's artifact and the generator's. *)
C15_Witness ==
    /\ Cardinality(bebops) = MaxSchemas
    /\ protos = {<<"src/protos", "schemas/jazz.proto">>}

Spawns == Count("spawn_bebopc") + Count("spawn_protoc")
Exits == Count("exit_bebopc") + Count("exit_protoc")

(* C16: execution is sequential and blocking: every process started has    *)
(* exited before the next is started, so at most one is running; starting   *)
(* one leaves main where it is, and while one is running the only step is   *)
(* that process's exit.                                                     *)
C16_Blocking ==
    /\ [](Spawns = Exits \/ Spawns = Exits + 1)
    /\ [](running = "none" <=> Spawns = Exits)
    /\ [](running = "bebopc" =>
            /\ Count("spawn_bebopc") = Count("exit_bebopc") + 1
            /\ Count("spawn_protoc") = Count("exit_protoc")
            /\ pc = "GeneratingBatch")
    /\ [](running = "protoc" =>
            /\ Count("spawn_protoc") = Count("exit_protoc") + 1
            /\ Count("spawn_bebopc") = Count("exit_bebopc")
            /\ pc = "GeneratingSingle")
    /\ [][(running = "none" /\ running' # "none") => pc' = pc]_vars
    /\ [][running # "none" =>
            /\ running' = "none"
            /\ log' = Append(log, IF running = "bebopc" THEN "exit_bebopc"
                                  ELSE "exit_protoc")]_vars

(* The generator is running, after MaxSchemas compiler runs have exited. *)
C16_Witness ==
    /\ running = "protoc"
    /\ Count("exit_bebopc") = MaxSchemas
    /\ Spawns = Exits + 1

(* C17: there is no timeout or cancellation: a build ends in Done or Failed *)
(* unless a process it started hangs, and once a hung process is running no *)
(* step is ever taken again: the build stays in the step that started it    *)
(* (GeneratingBatch for the compiler, GeneratingSingle for the generator)   *)
(* and reaches neither Done nor Failed.                                     *)
C17_NoTimeout ==
    /\ <>(pc \in Terminal \/ running \in hangs)
    /\ [](hangs = {} => <>(pc \in Terminal))
    /\ [][(running \notin hangs)]_vars
    /\ [](running \in hangs =>
            /\ pc \notin Terminal
            /\ pc = (IF running = "bebopc" THEN "GeneratingBatch" ELSE "GeneratingSingle"))

(* The build is blocked on a generator that hangs. *)
C17_Witness ==
    /\ running = "protoc"
    /\ "protoc" \in hangs
    /\ pc = "GeneratingSingle"

(* C18: the request main builds is the fixed value with output directory    *)
(* src/protos, the one input schemas/jazz.proto and the one include         *)
(* directory schemas; it never changes once built, the generator is only    *)
(* started with it, and the build never fails with ConfigurationError.      *)
C18_FixedRequest ==
    /\ [](req.set =>
            /\ req.out_dir = "src/protos"
            /\ req.inputs = <<"schemas/jazz.proto">>
            /\ Len(req.inputs) = 1
            /\ req.includes = <<"schemas">>
            /\ Len(req.includes) = 1)
    /\ [](~req.set => ~Happened("configure") /\ ~Happened("spawn_protoc"))
    /\ [](err.kind # "ConfigurationError" /\ ~Happened("refuse_protoc"))
    /\ [][req.set => req' = req]_vars

(* The generator is running on the request main built. *)
C18_Witness ==
    /\ running = "protoc"
    /\ req.inputs = <<"schemas/jazz.proto">>
    /\ req.out_dir = "src/protos"

====
